---- MODULE Spec2Model ----
(***************************************************************************)
(* A model of the p115updatedb mirror engine:                              *)
(*   - the store (tables data, dirlen, event and their triggers, initdb),  *)
(*     written through upsert_items and kill_items;                        *)
(*   - diff_dir / updatedb_one, the reconciliation of one directory;       *)
(*   - iter_fs_files_threaded, the paginator with look-ahead fetches.      *)
(* Spec     explores the store under arbitrary upserts and kills.          *)
(* SpecDiff explores repeated updatedb_one runs against a changing remote. *)
(* SpecPag  explores one pass of iter_fs_files_threaded.                   *)
(* SpecList explores one listing pass of iterdir with either paginator.    *)
(* SpecDup  explores diff_dir over pages that deliver an id twice.         *)
(* SpecRun  explores one run of updatedb over a remote tree.               *)
(* SpecRunFair is a run of updatedb whose only failures are BusyOSError.   *)
(***************************************************************************)
EXTENDS Integers, Sequences, FiniteSets, TLC

VARIABLES
    data,        \* table data: id -> row
    dirlen,      \* table dirlen: directory id -> row
    event,       \* table event: the rows in _id order
    lastOp,      \* the last write issued to the store and the row it met
    nops,        \* number of writes issued (bounded by MaxOps)
    remote,      \* the remote directory: id -> [present, mtime]
    pc,          \* where updatedb_one stands: "idle", "merge", "diffed"
    fresh,       \* a reconciliation was committed and the remote is unchanged since
    wasFresh,    \* value of fresh when the running diff_dir started
    mode,        \* "full" (no local history) or "diff" (lock-step merge)
    it,          \* iterdir.iterate: [unread, dirs, pending, seen]
    count,       \* total reported by the remote for this pass
    remains,     \* diff_dir local: local children not yet resolved
    groups,      \* diff_dir local: history groups not yet reached (his_it)
    his,         \* diff_dir local: the current group [mtime, ids]
    n,           \* diff_dir local: number of remote items consumed
    cur,         \* diff_dir local: the remote item being merged (attr)
    upsert_list, \* diff_dir result: items to upsert
    remove_list, \* diff_dir result: ids to remove
    early,       \* diff_dir returned from inside the loop (line 674)
    syncs,       \* number of updatedb_one runs started (bounded by MaxSyncs)
    listing,     \* the remote listing the paginator reads (frozen for the pass)
    futures,     \* the fetches submitted to the executor: [offset, state]
    pag,         \* iter_fs_files_threaded locals: count, offset, payload_offset, future, dq
    yielded,     \* the pages yielded so far, in order
    ppc,         \* where iter_fs_files_threaded stands: "off", "await", "done", "raised"
    expiries,    \* number of cooldown expiries (bounded by MaxExpiries)
    cid,         \* the directory the paginator lists (payload["cid"])
    seq,         \* iter_fs_files locals: offset, limit, pc, error
    run,         \* where updatedb stands: "off", "loop", "done", "aborted"
    tree,        \* the remote tree of the run: id -> [parent_id, present]
    auto_splitting_threshold,
    recursive,
    queue,       \* the ids waiting in bfs_gen
    run_seen,    \* updatedb local `seen`: the ids processed
    cache_futures, \* updatedb local: directory id -> statistics probe
    last,        \* what the last turn of the loop of updatedb did
    faults,      \* number of failed reconciliations (bounded by MaxFaults)
    settled,     \* history: the ids whose reconciliation ended for good in this run
    executor     \* the statistics pool: "none", "running" or "shutdown_nowait"

storeVars == <<data, dirlen, event>>
opVars    == <<lastOp, nops>>
diffVars  == <<remote, pc, fresh, wasFresh, mode, it, count, remains, groups, his,
               n, cur, upsert_list, remove_list, early, syncs>>
pagVars   == <<listing, futures, pag, yielded, ppc, expiries>>
vars      == <<data, dirlen, event, lastOp, nops, remote, pc, fresh, wasFresh, mode,
               it, count, remains, groups, his, n, cur, upsert_list, remove_list,
               early, syncs, listing, futures, pag, yielded, ppc, expiries,
               cid, seq, run, tree, auto_splitting_threshold, recursive, queue,
               run_seen, cache_futures, last, faults, settled, executor>>
listVars  == <<cid, seq>>
runVars   == <<run, tree, auto_splitting_threshold, recursive, queue, run_seen,
               cache_futures, last, faults, settled, executor>>

(***************************************************************************)
(* Bounds                                                                  *)
(***************************************************************************)
NumDirs  == 2
NumFiles == 1
MaxMtime == 2
MaxName  == 2
MaxOps   == 4
MaxSyncs == 3

Dirs   == 1..NumDirs
Files  == (NumDirs + 1)..(NumDirs + NumFiles)
Ids    == Dirs \cup Files
DirIds == {0} \cup Dirs
Mtimes == 1..MaxMtime
Names  == 1..MaxName

IsDir(id) == id \in Dirs

\* Parents offered to a write: keeps the stored tree free of cycles.
ParentChoices(id) == {0} \cup {d \in Dirs : d < id}

(***************************************************************************)
(* Tables                                                                  *)
(***************************************************************************)
NoRow == [present |-> FALSE, parent_id |-> 0, name |-> 0, mtime |-> 0,
          is_alive |-> FALSE, triggered |-> FALSE]

NoDirlen == [present |-> FALSE, dir_count |-> 0, file_count |-> 0,
             tree_dir_count |-> 0, tree_file_count |-> 0]

ZeroDirlen == [present |-> TRUE, dir_count |-> 0, file_count |-> 0,
               tree_dir_count |-> 0, tree_file_count |-> 0]

\* initdb: empty data and event tables, dirlen holds the root row only.
EmptyStore ==
    [data   |-> [i \in Ids |-> NoRow],
     dirlen |-> [d \in DirIds |-> IF d = 0 THEN ZeroDirlen ELSE NoDirlen],
     event  |-> <<>>]

(***************************************************************************)
(* Triggers                                                                *)
(***************************************************************************)
\* trg_dirlen_update: a change of the subtree counts of row id (id # 0) is
\* added to the row of its parent, looked up in data, and so on upwards.
RECURSIVE trg_dirlen_update(_, _, _, _, _)
trg_dirlen_update(dl, dt, id, dtd, dtf) ==
    IF id = 0 \/ (dtd = 0 /\ dtf = 0) \/ ~dt[id].present
    THEN dl
    ELSE LET p == dt[id].parent_id
         IN  IF ~dl[p].present
             THEN dl
             ELSE trg_dirlen_update(
                      [dl EXCEPT ![p].tree_dir_count  = @ + dtd,
                                 ![p].tree_file_count = @ + dtf],
                      dt, p, dtd, dtf)

\* UPDATE dirlen SET ... WHERE id = d, with the trigger it fires.
UpdateDirlen(dl, dt, d, dd, df, dtd, dtf) ==
    IF ~dl[d].present
    THEN dl
    ELSE trg_dirlen_update(
             [dl EXCEPT ![d].dir_count       = @ + dd,
                        ![d].file_count      = @ + df,
                        ![d].tree_dir_count  = @ + dtd,
                        ![d].tree_file_count = @ + dtf],
             dt, d, dtd, dtf)

\* A store without the mtime guard.
trg_data_before_update_absent(old, new) == FALSE

\* trg_data_before_update: the update of the row is dropped.
trg_data_before_update(old, new) == new.mtime < old.mtime

\* trg_data_insert, run after row `new` of `id` was inserted into st.data.
trg_data_insert(st, id, new) ==
    LET dl1 == IF IsDir(id) THEN [st.dirlen EXCEPT ![id] = ZeroDirlen] ELSE st.dirlen
        d   == IF IsDir(id) THEN 1 ELSE 0
        dl2 == UpdateDirlen(dl1, st.data, new.parent_id, d, 1 - d, d, 1 - d)
    IN  [st EXCEPT !.dirlen = dl2,
                   !.event  = Append(@, [id |-> id, diff |-> {"insert"}, op |-> {"add"}])]

\* A diff that leaves mtime out.
DiffKeys_without_mtime(old, new) ==
    {k \in {"parent_id", "name", "is_alive"} : old[k] # new[k]}

\* The keys of the diff column: the business fields whose value changed.
DiffKeys(old, new) ==
    {k \in {"parent_id", "name", "mtime", "is_alive"} : old[k] # new[k]}

\* An op array that holds the first of the tags only.
OpTags_first_only(old, new) ==
    LET diff == DiffKeys(old, new)
    IN  IF "is_alive" \in diff THEN {IF new.is_alive THEN "revert" ELSE "remove"}
        ELSE IF "name" \in diff THEN {"rename"}
        ELSE IF "parent_id" \in diff THEN {"move"}
        ELSE {}

\* The op array of the fs column.
OpTags(old, new) ==
    LET diff == DiffKeys(old, new)
    IN  {t \in {"revert", "remove", "rename", "move"} :
            \/ t = "revert" /\ "is_alive" \in diff /\ new.is_alive
            \/ t = "remove" /\ "is_alive" \in diff /\ ~new.is_alive
            \/ t = "rename" /\ "name" \in diff
            \/ t = "move"   /\ "parent_id" \in diff}

\* Every update of an alive row counts as leaving its parent.
leaves_on_any_update(old, new) == old.is_alive

\* OLD.is_alive AND NOT (NEW.is_alive AND OLD.parent_id = NEW.parent_id):
\* the row stops being an alive child of its old parent.
leaves(old, new) == old.is_alive /\ ~(new.is_alive /\ old.parent_id = new.parent_id)

\* NEW.is_alive AND NOT (OLD.is_alive AND OLD.parent_id = NEW.parent_id):
\* the row becomes an alive child of its new parent.
arrives(old, new) == new.is_alive /\ ~(old.is_alive /\ old.parent_id = new.parent_id)

\* The body of trg_data_update, run after row id was updated from old to new.
trg_data_update(st, id, old, new) ==
    LET dt  == [st.data EXCEPT ![id].triggered = TRUE]
        dl1 == IF leaves(old, new) /\ ~IsDir(id)
               THEN UpdateDirlen(st.dirlen, dt, old.parent_id, 0, -1, 0, -1)
               ELSE st.dirlen
        dl2 == IF leaves(old, new) /\ IsDir(id)
               THEN UpdateDirlen(dl1, dt, old.parent_id,
                                 0 - 1 - dl1[id].dir_count, 0,
                                 0 - 1 - dl1[id].tree_dir_count,
                                 0 - dl1[id].tree_file_count)
               ELSE dl1
        dl3 == IF arrives(old, new) /\ ~IsDir(id)
               THEN UpdateDirlen(dl2, dt, new.parent_id, 0, 1, 0, 1)
               ELSE dl2
        dl4 == IF arrives(old, new) /\ IsDir(id)
               THEN UpdateDirlen(dl3, dt, new.parent_id,
                                 1 + dl3[id].dir_count, 0,
                                 1 + dl3[id].tree_dir_count,
                                 dl3[id].tree_file_count)
               ELSE dl3
        ev  == IF DiffKeys(old, new) # {}
               THEN Append(st.event, [id |-> id, diff |-> DiffKeys(old, new),
                                      op |-> OpTags(old, new)])
               ELSE st.event
    IN  [data |-> dt, dirlen |-> dl4, event |-> ev]

\* UPDATE of one row of data to `new`, with the triggers around it.
UpdateRow(st, id, new) ==
    LET old == st.data[id]
    IN  IF trg_data_before_update(old, new)
        THEN st
        ELSE LET st1 == [st EXCEPT !.data[id] = new]
             IN  IF ~new.triggered
                 THEN trg_data_update(st1, id, old, new)
                 ELSE st1

(***************************************************************************)
(* Writes                                                                  *)
(***************************************************************************)
\* An upsert that inserts whether or not the row exists.
upsert_item_insert_only(st, a) ==
    LET new == [present |-> TRUE, parent_id |-> a.parent_id, name |-> a.name,
                mtime |-> a.mtime, is_alive |-> a.is_alive, triggered |-> FALSE]
    IN  trg_data_insert([st EXCEPT !.data[a.id] = new], a.id, new)

\* upsert_items(con, attr, extras={"_triggered": 0}) for one item.
upsert_item(st, a) ==
    LET new == [present |-> TRUE, parent_id |-> a.parent_id, name |-> a.name,
                mtime |-> a.mtime, is_alive |-> a.is_alive, triggered |-> FALSE]
    IN  IF ~st.data[a.id].present
        THEN trg_data_insert([st EXCEPT !.data[a.id] = new], a.id, new)
        ELSE UpdateRow(st, a.id, new)

\* UPDATE data SET is_alive=0 WHERE id = ...: _triggered is left as stored.
kill_item(st, id) ==
    IF ~st.data[id].present
    THEN st
    ELSE UpdateRow(st, id, [st.data[id] EXCEPT !.is_alive = FALSE])

RECURSIVE upsert_items(_, _)
upsert_items(st, items) ==
    IF items = <<>> THEN st
    ELSE CHOOSE r \in {upsert_items(st1, Tail(items)) :
                          st1 \in {upsert_item(st, Head(items))}} : TRUE

\* kill_items over a set of ids: the rows are updated one by one.
RECURSIVE kill_items(_, _)
kill_items(st, ids) ==
    IF ids = {} THEN st
    ELSE LET id == CHOOSE x \in ids : \A y \in ids : x <= y
         IN  kill_items(kill_item(st, id), ids \ {id})

Store == [data |-> data, dirlen |-> dirlen, event |-> event]

(***************************************************************************)
(* Spec: the store under arbitrary writes                                  *)
(***************************************************************************)
NoOp == [kind |-> "none", id |-> 0, mtime |-> 0, old |-> NoRow]

NoItem  == [id |-> 0, mtime |-> 0]
NoGroup == [mtime |-> 0, ids |-> {}]
NoIter  == [unread |-> <<>>, dirs |-> <<>>, pending |-> <<>>, seen |-> {}]

DiffIdle ==
    /\ remote = [i \in Ids |-> [present |-> FALSE, mtime |-> 1]]
    /\ pc = "idle" /\ fresh = FALSE /\ wasFresh = FALSE /\ mode = "none"
    /\ it = NoIter
    /\ count = 0 /\ remains = 0 /\ groups = <<>>
    /\ his = NoGroup
    /\ n = 0 /\ cur = NoItem
    /\ upsert_list = <<>> /\ remove_list = {} /\ early = FALSE
    /\ syncs = 0

\* iter_fs_files_threaded is not running.
NoPag == [count |-> -1, offset |-> 0, payload_offset |-> 0, future |-> 0, dq |-> <<>>]

PagOff ==
    /\ listing = <<>> /\ futures = <<>> /\ pag = NoPag
    /\ yielded = <<>> /\ ppc = "off" /\ expiries = 0

\* iter_fs_files is not running.
NoSeq == [offset |-> 0, limit |-> 0, pc |-> "off", error |-> "none"]

SeqOff == cid = 0 /\ seq = NoSeq

\* updatedb is not running.
NoNode  == [parent_id |-> 0, present |-> FALSE]
NoProbe == [kind |-> "none", count |-> 0]
NoTurn  == [kind |-> "none", id |-> 0, split |-> FALSE, result |-> "none",
            probe |-> "none", paged |-> FALSE]

RunOff ==
    /\ run = "off"
    /\ tree = [i \in Ids |-> NoNode]
    /\ auto_splitting_threshold = 0
    /\ recursive = FALSE
    /\ queue = <<>>
    /\ run_seen = {}
    /\ cache_futures = [d \in DirIds |-> NoProbe]
    /\ last = NoTurn
    /\ faults = 0
    /\ settled = {}
    /\ executor = "none"

Init ==
    /\ data = EmptyStore.data
    /\ dirlen = EmptyStore.dirlen
    /\ event = EmptyStore.event
    /\ lastOp = NoOp
    /\ nops = 0
    /\ DiffIdle
    /\ PagOff
    /\ SeqOff
    /\ RunOff

\* A parent is written before its children (ancestors are upserted first).
ParentKnown(p) == IF p = 0 THEN TRUE ELSE data[p].present

Upsert(id, p, nm, mt) ==
    /\ nops < MaxOps
    /\ ParentKnown(p)
    /\ LET a  == [id |-> id, parent_id |-> p, name |-> nm, mtime |-> mt, is_alive |-> TRUE]
           st == upsert_item(Store, a)
       IN  /\ data' = st.data
           /\ dirlen' = st.dirlen
           /\ event' = st.event
           /\ lastOp' = [kind |-> "upsert", id |-> id, mtime |-> mt, old |-> data[id]]
    /\ nops' = nops + 1
    /\ UNCHANGED diffVars
    /\ UNCHANGED <<pagVars, listVars, runVars>>

Kill(id) ==
    /\ nops < MaxOps
    /\ LET st == kill_item(Store, id)
       IN  /\ data' = st.data
           /\ dirlen' = st.dirlen
           /\ event' = st.event
           /\ lastOp' = [kind |-> "kill", id |-> id, mtime |-> 0, old |-> data[id]]
    /\ nops' = nops + 1
    /\ UNCHANGED diffVars
    /\ UNCHANGED <<pagVars, listVars, runVars>>

Next ==
    \/ \E id \in Ids : \E p \in ParentChoices(id) : \E nm \in Names : \E mt \in Mtimes :
           Upsert(id, p, nm, mt)
    \/ \E id \in Ids : Kill(id)

Spec == Init /\ [][Next]_vars

(***************************************************************************)
(* Properties of the store                                                 *)
(***************************************************************************)
\* x hangs below directory D through directories that are all alive.
RECURSIVE LinkedTo(_, _, _)
LinkedTo(dt, x, D) ==
    IF ~dt[x].present THEN FALSE
    ELSE LET p == dt[x].parent_id
         IN  IF p = D THEN TRUE
             ELSE IF p = 0 THEN FALSE
             ELSE dt[p].present /\ dt[p].is_alive /\ LinkedTo(dt, p, D)

AliveDescendants(dt, D) ==
    {x \in Ids : dt[x].present /\ dt[x].is_alive /\ LinkedTo(dt, x, D)}

AliveChildren(dt, D) ==
    {x \in Ids : dt[x].present /\ dt[x].is_alive /\ dt[x].parent_id = D}

Business(row) == [parent_id |-> row.parent_id, name |-> row.name,
                  mtime |-> row.mtime, is_alive |-> row.is_alive]

\* C2: in every reachable state, for every directory id D (root included),
\* tree_file_count(D) is the number of alive files below D and
\* tree_dir_count(D) the number of alive directories below D.
C2_TreeCountsExact ==
    \A D \in DirIds :
        dirlen[D].present =>
            /\ dirlen[D].tree_file_count =
                   Cardinality({x \in AliveDescendants(data, D) : ~IsDir(x)})
            /\ dirlen[D].tree_dir_count =
                   Cardinality({x \in AliveDescendants(data, D) : IsDir(x)})

\* C3: the stored mtime of a node never decreases, and an upsert whose mtime
\* is lower than the stored one changes no business field of the row, no
\* dirlen row, and appends no event.
C3_MtimeMonotone ==
    [][\A id \in Ids :
           /\ data[id].present =>
                  data'[id].present /\ data'[id].mtime >= data[id].mtime
           /\ (/\ nops' = nops + 1
               /\ lastOp'.kind = "upsert" /\ lastOp'.id = id
               /\ data[id].present /\ lastOp'.mtime < data[id].mtime)
              => /\ \A j \in Ids : Business(data'[j]) = Business(data[j])
                 /\ dirlen' = dirlen
                 /\ event' = event]_vars

\* An upsert carrying an older mtime met a stored row and left it as it was.
C3_Witness ==
    /\ lastOp.kind = "upsert"
    /\ lastOp.old.present
    /\ lastOp.mtime < lastOp.old.mtime
    /\ data[lastOp.id].mtime = lastOp.old.mtime

\* C4: every kill_items call on an existing alive node decrements the
\* aggregates of its parent and appends exactly one event tagged 'remove',
\* whatever writes preceded it; on an id not present it changes nothing.
C4_KillAlwaysAccounted ==
    [][(nops' = nops + 1 /\ lastOp'.kind = "kill") =>
          LET id == lastOp'.id
              p  == data[id].parent_id
          IN  IF data[id].present /\ data[id].is_alive
              THEN /\ ~data'[id].is_alive
                   /\ event' = Append(event, [id |-> id, diff |-> {"is_alive"},
                                              op |-> {"remove"}])
                   /\ dirlen[p].present =>
                          IF IsDir(id)
                          THEN dirlen'[p].tree_dir_count < dirlen[p].tree_dir_count
                          ELSE dirlen'[p].tree_file_count = dirlen[p].tree_file_count - 1
              ELSE IF ~data[id].present
              THEN data' = data /\ dirlen' = dirlen /\ event' = event
              ELSE TRUE]_vars

(***************************************************************************)
(* The remote directory and its listing                                    *)
(***************************************************************************)
\* The directory reconciled in SpecDiff: the root, whose listing has no
\* ancestors.
D0 == 0

RemoteIds(r) == {i \in Ids : r[i].present}

\* S by descending mtime (equal mtimes by id).
RECURSIVE ByMtimeDesc(_, _)
ByMtimeDesc(r, S) ==
    IF S = {} THEN <<>>
    ELSE LET x == CHOOSE a \in S : \A b \in S :
                      \/ r[a].mtime > r[b].mtime
                      \/ r[a].mtime = r[b].mtime /\ a <= b
         IN  <<[id |-> x, mtime |-> r[x].mtime]>> \o ByMtimeDesc(r, S \ {x})

\* The listing as the pages deliver it with o=user_utime, asc=0, fc_mix=0:
\* the directories first, then the files, each by descending mtime.
Listing(r) ==
    ByMtimeDesc(r, {i \in RemoteIds(r) : IsDir(i)})
        \o ByMtimeDesc(r, {i \in RemoteIds(r) : ~IsDir(i)})

(***************************************************************************)
(* iterdir.iterate with fix_order                                          *)
(***************************************************************************)
\* Runs the generator to its next yield: directories are buffered, a file
\* first flushes the buffered directories that are not older than it.
\* line 590: fid in seen
Duplicate_unchecked(a, seen) == FALSE
Duplicate(a, seen) == a.id \in seen

\* A generator that keeps every directory until the stream ends.
dir_goes_first_never(d, a) == FALSE

\* Line 602: the buffered directory d is yielded before file a.
dir_goes_first(d, a) == d.mtime >= a.mtime

RECURSIVE iterate(_)
iterate(s) ==
    IF s.pending # <<>>
    THEN IF s.dirs # <<>> /\ dir_goes_first(Head(s.dirs), Head(s.pending))
         THEN [stop |-> FALSE, busy |-> FALSE, item |-> Head(s.dirs),
               st |-> [s EXCEPT !.dirs = Tail(@)]]
         ELSE [stop |-> FALSE, busy |-> FALSE, item |-> Head(s.pending),
               st |-> [s EXCEPT !.pending = <<>>]]
    ELSE IF s.unread = <<>>
    THEN IF s.dirs # <<>>
         THEN [stop |-> FALSE, busy |-> FALSE, item |-> Head(s.dirs),
               st |-> [s EXCEPT !.dirs = Tail(@)]]
         ELSE [stop |-> TRUE, busy |-> FALSE, item |-> NoItem, st |-> s]
    ELSE LET a  == Head(s.unread)
             s1 == [s EXCEPT !.unread = Tail(@), !.seen = @ \cup {a.id}]
         IN  IF Duplicate(a, s.seen)
             THEN [stop |-> FALSE, busy |-> TRUE, item |-> a, st |-> s]
             ELSE IF IsDir(a.id)
             THEN iterate([s1 EXCEPT !.dirs = Append(@, a)])
             ELSE iterate([s1 EXCEPT !.pending = <<a>>])

\* upsert_list.extend(data_it)
RECURSIVE Drain(_)
Drain(s) ==
    LET r == iterate(s)
    IN  IF r.stop \/ r.busy THEN <<>> ELSE <<r.item>> \o Drain(r.st)

\* The generator reached an id it had seen before (line 591).
RECURSIVE DrainBusy(_)
DrainBusy(s) ==
    LET r == iterate(s)
    IN  IF r.busy THEN TRUE ELSE IF r.stop THEN FALSE ELSE DrainBusy(r.st)

StartIterOn(stream) == [unread |-> stream, dirs |-> <<>>, pending |-> <<>>, seen |-> {}]

StartIter(r) == StartIterOn(Listing(r))

(***************************************************************************)
(* diff_dir                                                                *)
(***************************************************************************)
\* select_mtime_groups: the alive direct children of a directory grouped by
\* mtime, by descending mtime, and their number.
RECURSIVE GroupsDesc(_, _)
GroupsDesc(dt, S) ==
    IF S = {} THEN <<>>
    ELSE LET m == CHOOSE a \in {dt[x].mtime : x \in S} :
                      \A b \in {dt[x].mtime : x \in S} : a >= b
             g == {x \in S : dt[x].mtime = m}
         IN  <<[mtime |-> m, ids |-> g]>> \o GroupsDesc(dt, S \ g)

select_mtime_groups(dt, id) ==
    LET S == {x \in Ids : dt[x].present /\ dt[x].is_alive /\ dt[x].parent_id = id}
    IN  [remains |-> Cardinality(S), groups |-> GroupsDesc(dt, S)]

\* The test of line 636: the directory has local history.
HasHistory(dl, id) ==
    dl[id].present /\ (dl[id].dir_count # 0 \/ dl[id].file_count # 0)

\* his_ids - seen, with every id of the group
Unseen_ignoring_seen(ids, seen) == ids

\* his_ids - seen
Unseen(ids, seen) == ids \ seen

\* The loop of lines 665-668: groups newer than the item are given up.
\* exhausted: next(his_it) raised StopIteration.
RECURSIVE SkipNewer(_, _, _, _, _, _)
SkipNewer(h, gs, rem, rm, cur_mtime, seen) ==
    IF h.mtime > cur_mtime
    THEN LET rm1  == rm \cup Unseen(h.ids, seen)
             rem1 == rem - Cardinality(h.ids)
         IN  IF gs = <<>>
             THEN [his |-> h, groups |-> gs, remains |-> rem1, remove |-> rm1,
                   exhausted |-> TRUE]
             ELSE SkipNewer(Head(gs), Tail(gs), rem1, rm1, cur_mtime, seen)
    ELSE [his |-> h, groups |-> gs, remains |-> rem, remove |-> rm, exhausted |-> FALSE]

\* Lines 678-681: at stream end the pending groups are removed.
RECURSIVE RemoveRest(_, _)
RemoveRest(gs, seen) ==
    IF gs = <<>> THEN {}
    ELSE Unseen(Head(gs).ids, seen) \cup RemoveRest(Tail(gs), seen)

\* m: "none" after a return, "busy" after a BusyOSError.
ResetLocalsTo(m) ==
    /\ it' = NoIter /\ count' = 0 /\ remains' = 0 /\ groups' = <<>> /\ his' = NoGroup
    /\ n' = 0 /\ cur' = NoItem /\ upsert_list' = <<>> /\ remove_list' = {}
    /\ early' = FALSE /\ mode' = m /\ wasFresh' = FALSE

ResetLocals == ResetLocalsTo("none")

\* diff_dir up to the start of the merge (lines 634-659); without local
\* history the whole listing is the upsert list (lines 636-646).
\* stream is what the pages deliver, cnt the total the first page reports.
DiffStartOn(stream, cnt) ==
    /\ pc = "idle"
    /\ syncs < MaxSyncs
    /\ syncs' = syncs + 1
    /\ wasFresh' = fresh
    /\ early' = FALSE
    /\ n' = 0
    /\ cur' = NoItem
    /\ remove_list' = {}
    /\ IF ~HasHistory(dirlen, D0)
       THEN IF DrainBusy(StartIterOn(stream))
            THEN \* BusyOSError leaves upsert_list.extend: no lists are returned
                 /\ mode' = "busy" /\ count' = 0
                 /\ upsert_list' = <<>>
                 /\ it' = NoIter /\ remains' = 0 /\ groups' = <<>> /\ his' = NoGroup
                 /\ pc' = "idle"
            ELSE /\ mode' = "full" /\ count' = cnt
                 /\ upsert_list' = Drain(StartIterOn(stream))
                 /\ it' = NoIter /\ remains' = 0 /\ groups' = <<>> /\ his' = NoGroup
                 /\ pc' = "diffed"
       ELSE LET h == select_mtime_groups(data, D0)
            IN  /\ mode' = "diff" /\ count' = cnt
                /\ upsert_list' = <<>>
                /\ it' = StartIterOn(stream)
                /\ remains' = h.remains
                /\ IF h.remains # 0
                   THEN his' = Head(h.groups) /\ groups' = Tail(h.groups)
                   ELSE his' = NoGroup /\ groups' = h.groups
                /\ pc' = "merge"
    /\ UNCHANGED <<data, dirlen, event, lastOp, nops, remote, fresh>>
    /\ UNCHANGED <<pagVars, listVars, runVars>>

DiffStart == DiffStartOn(Listing(remote), Len(Listing(remote)))

\* One turn of the loop of lines 660-677, or its end (lines 678-682).
MergeStep ==
    /\ pc = "merge"
    /\ LET r == iterate(it)
       IN  IF r.busy
           THEN \* BusyOSError: no lists are returned
                /\ pc' = "idle"
                /\ ResetLocalsTo("busy")
                /\ UNCHANGED <<fresh>>
           ELSE IF r.stop
           THEN /\ remove_list' = IF remains # 0
                                  THEN remove_list \cup Unseen(his.ids, r.st.seen)
                                           \cup RemoveRest(groups, r.st.seen)
                                  ELSE remove_list
                /\ pc' = "diffed"
                /\ it' = r.st
                /\ UNCHANGED <<remains, groups, his, n, cur, upsert_list, early,
                               count, mode, wasFresh, fresh>>
           ELSE /\ it' = r.st
                /\ n' = n + 1
                /\ cur' = r.item
                /\ IF remains # 0
                   THEN LET k == SkipNewer(his, groups, remains, remove_list,
                                           r.item.mtime, r.st.seen)
                        IN  /\ remove_list' = k.remove
                            /\ groups' = k.groups
                            /\ IF k.exhausted
                               THEN \* except StopIteration: continue
                                    /\ his' = k.his
                                    /\ remains' = k.remains
                                    /\ UNCHANGED <<upsert_list, early, pc>>
                               ELSE IF k.his.mtime = r.item.mtime /\ r.item.id \in k.his.ids
                               THEN /\ remains' = k.remains - 1
                                    /\ IF n + 1 + k.remains - 1 = count
                                       THEN \* return result
                                            /\ early' = TRUE
                                            /\ pc' = "diffed"
                                            /\ his' = k.his
                                       ELSE /\ his' = [k.his EXCEPT !.ids = @ \ {r.item.id}]
                                            /\ UNCHANGED <<early, pc>>
                                    /\ UNCHANGED upsert_list
                               ELSE /\ upsert_list' = Append(upsert_list, r.item)
                                    /\ his' = k.his
                                    /\ remains' = k.remains
                                    /\ UNCHANGED <<early, pc>>
                   ELSE /\ upsert_list' = Append(upsert_list, r.item)
                        /\ UNCHANGED <<remains, groups, his, remove_list, early, pc>>
                /\ UNCHANGED <<count, mode, wasFresh, fresh>>
    /\ UNCHANGED <<data, dirlen, event, lastOp, nops, remote, syncs>>
    /\ UNCHANGED <<pagVars, listVars, runVars>>

\* normalize_attr of a listed item of directory D0
Attr(a) == [id |-> a.id, parent_id |-> D0, name |-> 1, mtime |-> a.mtime,
            is_alive |-> TRUE]

RECURSIVE Attrs(_)
Attrs(items) == IF items = <<>> THEN <<>> ELSE <<Attr(Head(items))>> \o Attrs(Tail(items))

\* updatedb_one, lines 928-933: the upserts, then the kills, in one transaction.
Commit ==
    /\ pc = "diffed"
    /\ LET st == kill_items(upsert_items(Store, Attrs(upsert_list)), remove_list)
       IN  /\ data' = st.data
           /\ dirlen' = st.dirlen
           /\ event' = st.event
    /\ pc' = "idle"
    /\ fresh' = TRUE
    /\ ResetLocals
    /\ UNCHANGED <<lastOp, nops, remote, syncs>>
    /\ UNCHANGED <<pagVars, listVars, runVars>>

\* The remote directory changes between two runs: children are added or
\* moved in (with any mtime not older than they had), removed or moved out,
\* or get a newer mtime.
RemoteChange ==
    /\ pc = "idle"
    /\ syncs < MaxSyncs
    /\ \E r \in [Ids -> [present : BOOLEAN, mtime : Mtimes]] :
           /\ r # remote
           /\ \A i \in Ids : r[i].mtime >= remote[i].mtime
           /\ remote' = r
    /\ fresh' = FALSE
    /\ UNCHANGED <<data, dirlen, event, lastOp, nops, pc, wasFresh, mode, it, count,
                   remains, groups, his, n, cur, upsert_list, remove_list, early, syncs>>
    /\ UNCHANGED <<pagVars, listVars, runVars>>

NextDiff == DiffStart \/ MergeStep \/ Commit \/ RemoteChange

SpecDiff == Init /\ [][NextDiff]_vars

(***************************************************************************)
(* Properties of diff_dir and updatedb_one                                 *)
(***************************************************************************)
ItemIds(items) == {items[k].id : k \in 1..Len(items)}

\* The alive direct children of D0 as stored when the running diff started
\* (the store is not written before Commit).
LocalIds == AliveChildren(data, D0)

\* Children the remote no longer has, has with another mtime, has in addition.
Removed == {i \in LocalIds : ~remote[i].present}
Changed == {i \in LocalIds : remote[i].present /\ remote[i].mtime # data[i].mtime}
Added   == {i \in RemoteIds(remote) : i \notin LocalIds}

\* Remote items the generator has not yielded yet.
Unyielded == ItemIds(it.unread) \cup ItemIds(it.dirs) \cup ItemIds(it.pending)

\* Local children still counted by remains.
RECURSIVE GroupIds(_)
GroupIds(gs) == IF gs = <<>> THEN {} ELSE Head(gs).ids \cup GroupIds(Tail(gs))

Unresolved == (his.ids \cup GroupIds(groups)) \ {cur.id}

\* C1: after updatedb_one completes on a directory against a listing that
\* did not change during the call, the alive direct children stored are
\* exactly the remote children, each with the remote mtime.
C1_MirrorConverges ==
    (pc = "idle" /\ fresh) =>
        /\ AliveChildren(data, D0) = RemoteIds(remote)
        /\ \A i \in RemoteIds(remote) : data[i].mtime = remote[i].mtime

\* C5: in diff mode the remove list holds exactly the removed children and
\* the upsert list exactly the children whose mtime changed plus the added ids.
C5_DeltaExact ==
    (pc = "diffed" /\ mode = "diff") =>
        /\ remove_list = Removed
        /\ ItemIds(upsert_list) = Changed \cup Added

\* C6: a second diff_dir after an applied reconciliation, the remote listing
\* unchanged, returns an empty upsert list and an empty remove list.
C6_SecondDiffEmpty ==
    (pc = "diffed" /\ wasFresh) => (upsert_list = <<>> /\ remove_list = {})

C8_EarlyReturnSound ==
    (pc = "diffed" /\ early) =>
        /\ \A i \in Unresolved :
               remote[i].present /\ remote[i].mtime = data[i].mtime
        /\ \A i \in Unyielded :
               i \in LocalIds /\ data[i].mtime = remote[i].mtime

(***************************************************************************)
(* iter_fs_files_threaded (fs_files.py 132-217): one pass over a frozen    *)
(* remote listing.  Time is abstracted: a fetch that is still running when *)
(* result() is called may outlast the rest of the cooldown.                *)
(***************************************************************************)
PageSize    == 2
MaxTotal    == 5
MaxFetches  == 6
MaxExpiries == 3
MaxFailures == 2

Min(a, b) == IF a < b THEN a ELSE b

\* The ways a fetch ends: a response for the directory asked for, a response
\* whose ancestor path ends in another directory ("moved"), an exception
\* whose class name holds "Timeout" (status below 400), the built-in
\* TimeoutError, any other error.
Outcomes == {"ok", "moved", "Timeout", "TimeoutError", "error"}

\* An item of another directory, and the page that holds it.
Foreign == 0

\* The response of the remote to a request at offset o with limit PageSize.
fs_files(o) ==
    [offset |-> o,
     count  |-> Len(listing),
     data   |-> IF o >= Len(listing) THEN <<>>
                ELSE SubSeq(listing, o + 1, Min(o + PageSize, Len(listing))),
     cid    |-> cid]

\* The response a finished request holds: resp["path"][-1]["cid"] is the
\* directory asked for unless the request ended as "moved".
Response(f) ==
    IF f.state = "moved"
    THEN [offset |-> f.offset, count |-> 1, data |-> <<Foreign>>, cid |-> Foreign]
    ELSE fs_files(f.offset)

\* make_future: submit a request at offset o; the new future is the last one.
make_future(fs, o) == Append(fs, [offset |-> o, state |-> "running"])

Failed(fs) ==
    Cardinality({f \in DOMAIN fs : fs[f].state \notin {"running", "ok", "moved"}})

InitPag ==
    /\ data = EmptyStore.data
    /\ dirlen = EmptyStore.dirlen
    /\ event = EmptyStore.event
    /\ lastOp = NoOp
    /\ nops = 0
    /\ DiffIdle
    /\ \E t \in 0..MaxTotal : listing = [i \in 1..t |-> i]
    /\ futures = make_future(<<>>, 0)
    /\ pag = [count |-> -1, offset |-> 0, payload_offset |-> 0, future |-> 1, dq |-> <<>>]
    /\ yielded = <<>>
    /\ ppc = "await"
    /\ expiries = 0
    /\ cid \in {0, 1}
    /\ seq = NoSeq
    /\ RunOff

\* A worker thread finishes a request.
FetchDone(f, outcome) ==
    /\ ppc = "await"
    /\ futures[f].state = "running"
    /\ IF outcome = "ok" THEN TRUE
       ELSE IF outcome = "moved" THEN cid # 0
       ELSE Failed(futures) < MaxFailures
    /\ futures' = [futures EXCEPT ![f].state = outcome]
    /\ UNCHANGED <<listing, pag, yielded, ppc, expiries>>
    /\ UNCHANGED <<storeVars, opVars, diffVars, listVars, runVars>>

\* line 192
ShouldPush(c, po) == IF c < 0 THEN TRUE ELSE po < c

\* line 191: the offset of the look-ahead request
SpeculativeOffset_stale(p) == p.payload_offset
SpeculativeOffset(p) == p.payload_offset + PageSize

\* lines 190-193: result() raised TimeoutError, because the cooldown ran out
\* on a running fetch or because the fetch itself failed with TimeoutError.
CooldownExpires ==
    /\ ppc = "await"
    /\ futures[pag.future].state \in {"running", "TimeoutError"}
    /\ expiries < MaxExpiries
    /\ expiries' = expiries + 1
    /\ LET po == SpeculativeOffset(pag)
       IN  IF ShouldPush(pag.count, po)
           THEN /\ Len(futures) < MaxFetches
                /\ futures' = make_future(futures, po)
                /\ pag' = [pag EXCEPT !.payload_offset = po,
                                      !.dq = Append(@, [future |-> Len(futures) + 1,
                                                        offset |-> po])]
           ELSE /\ futures' = futures
                /\ pag' = [pag EXCEPT !.payload_offset = po]
    /\ UNCHANGED <<listing, yielded, ppc>>
    /\ UNCHANGED <<storeVars, opVars, diffVars, listVars, runVars>>

\* line 197: the offset of the re-issued request
RetryOffset_payload(p) == p.payload_offset
RetryOffset(p) == p.offset

\* lines 194-197: the awaited fetch failed with a timeout-class error.
Retry ==
    /\ ppc = "await"
    /\ futures[pag.future].state = "Timeout"
    /\ Len(futures) < MaxFetches
    /\ futures' = make_future(futures, RetryOffset(pag))
    /\ pag' = [pag EXCEPT !.future = Len(futures) + 1]
    /\ UNCHANGED <<listing, yielded, ppc, expiries>>
    /\ UNCHANGED <<storeVars, opVars, diffVars, listVars, runVars>>

\* lines 194-196: any other failure of the awaited fetch propagates.
Raise ==
    /\ ppc = "await"
    /\ futures[pag.future].state = "error"
    /\ ppc' = "raised"
    /\ UNCHANGED <<listing, futures, pag, yielded, expiries>>
    /\ UNCHANGED <<storeVars, opVars, diffVars, listVars, runVars>>

\* line 199
PathOk_unchecked(resp) == TRUE
PathOk(resp) == IF cid = 0 THEN TRUE ELSE resp.cid = cid

\* lines 199-203: the page is of another directory.
RaisePath ==
    /\ ppc = "await"
    /\ futures[pag.future].state \in {"ok", "moved"}
    /\ ~PathOk(Response(futures[pag.future]))
    /\ ppc' = IF pag.count < 0 THEN "NotADirectoryError" ELSE "FileNotFoundError"
    /\ UNCHANGED <<listing, futures, pag, yielded, expiries>>
    /\ UNCHANGED <<storeVars, opVars, diffVars, listVars, runVars>>

\* line 208
Last(c, o, resp) ==
    IF c = 0 THEN TRUE
    ELSE IF o >= c THEN TRUE
    ELSE IF o # resp.offset THEN TRUE
    ELSE o + Len(resp.data) >= c

\* lines 198-215: the awaited fetch returned a page.
YieldPage ==
    /\ ppc = "await"
    /\ futures[pag.future].state \in {"ok", "moved"}
    /\ PathOk(Response(futures[pag.future]))
    /\ LET resp == Response(futures[pag.future])
           c    == resp.count
           o    == pag.offset + PageSize
       IN  /\ yielded' = Append(yielded, resp)
           /\ IF pag.dq # <<>>
              THEN /\ pag' = [pag EXCEPT !.count = c,
                                         !.future = Head(pag.dq).future,
                                         !.offset = Head(pag.dq).offset,
                                         !.dq = Tail(pag.dq)]
                   /\ UNCHANGED <<futures, ppc>>
              ELSE IF Last(c, pag.offset, resp)
              THEN /\ pag' = [pag EXCEPT !.count = c]
                   /\ ppc' = "done"
                   /\ UNCHANGED futures
              ELSE IF o >= c
              THEN /\ pag' = [pag EXCEPT !.count = c, !.offset = o, !.payload_offset = o]
                   /\ ppc' = "done"
                   /\ UNCHANGED futures
              ELSE /\ Len(futures) < MaxFetches
                   /\ futures' = make_future(futures, o)
                   /\ pag' = [pag EXCEPT !.count = c, !.offset = o, !.payload_offset = o,
                                         !.future = Len(futures) + 1]
                   /\ UNCHANGED ppc
    /\ UNCHANGED <<listing, expiries>>
    /\ UNCHANGED <<storeVars, opVars, diffVars, listVars, runVars>>

NextPag ==
    \/ \E f \in 1..MaxFetches : \E outcome \in Outcomes :
           f \in DOMAIN futures /\ FetchDone(f, outcome)
    \/ CooldownExpires
    \/ Retry
    \/ Raise
    \/ RaisePath
    \/ YieldPage

SpecPag == InitPag /\ [][NextPag]_vars

(***************************************************************************)
(* Claims about the paginator                                              *)
(***************************************************************************)
RECURSIVE Items(_)
Items(pages) == IF pages = <<>> THEN <<>> ELSE Head(pages).data \o Items(Tail(pages))

IsPrefix(s, t) == Len(s) <= Len(t) /\ s = SubSeq(t, 1, Len(s))

\* C9: over a listing that does not change, the items yielded so far are
\* always the first items of the listing, each once and in the listing's
\* order, and when the pass ends normally all of them have been yielded.
C9_ExactlyOnceInOrder ==
    /\ IsPrefix(Items(yielded), listing)
    /\ ppc = "done" => Items(yielded) = listing

\* A pass of three pages that met a cooldown expiry, a look-ahead fetch that
\* finished before the awaited one, and a retried timeout-class failure.
C9_Witness ==
    /\ ppc = "done"
    /\ Len(listing) > 2 * PageSize
    /\ expiries > 0
    /\ \E f \in DOMAIN futures : futures[f].state = "Timeout"
    /\ Items(yielded) = listing

\* C10 as stated: the queue of look-ahead fetches never holds more than one.
C10_AtMostOneSpeculative == Len(pag.dq) <= 1

\* C10, amended: the queue holds one look-ahead fetch per cooldown expiry at
\* most, and the queued fetches are for the consecutive pages that follow
\* the awaited offset, in queue order.
C10_QueueConsecutive ==
    /\ Len(pag.dq) <= expiries
    /\ \A k \in 1..Len(pag.dq) :
           /\ pag.dq[k].offset = pag.offset + k * PageSize
           /\ futures[pag.dq[k].future].offset = pag.dq[k].offset

\* Two look-ahead fetches queued behind an awaited fetch that is still running.
C10_Witness ==
    /\ ppc = "await"
    /\ Len(pag.dq) >= 2
    /\ futures[pag.future].state = "running"

\* C11: whenever the awaited fetch has failed with a timeout-class error (an
\* exception named "...Timeout..." or the built-in TimeoutError), the next
\* thing the loop does is to submit a new request at the awaited offset and
\* to await it; the awaited offset and the pages yielded do not change.
C11_TimeoutReissued ==
    [][(/\ ppc = "await"
        /\ futures[pag.future].state \in {"Timeout", "TimeoutError"}
        /\ pag' # pag)
       => /\ Len(futures') = Len(futures) + 1
          /\ futures'[Len(futures')].offset = pag.offset
          /\ pag'.future = Len(futures')
          /\ pag'.offset = pag.offset
          /\ pag'.dq = pag.dq
          /\ yielded' = yielded]_vars

\* C15: listing a directory other than the root, when the awaited fetch
\* returns a page whose ancestor path ends in another directory, the loop
\* yields nothing of it and raises NotADirectoryError if no page was yielded
\* before and FileNotFoundError otherwise; listing the root never raises
\* either of them.
C15_PathMismatchRaises ==
    /\ [][(/\ ppc = "await"
           /\ cid # 0
           /\ futures[pag.future].state \in {"ok", "moved"}
           /\ Response(futures[pag.future]).cid # cid
           /\ <<pag, yielded, ppc>>' # <<pag, yielded, ppc>>)
          => /\ yielded' = yielded
             /\ ppc' = IF yielded = <<>> THEN "NotADirectoryError"
                       ELSE "FileNotFoundError"]_vars
    /\ [](ppc \in {"NotADirectoryError", "FileNotFoundError"} => cid # 0)

\* A later page of a directory other than the root came back for another
\* directory after an earlier page was yielded.
C15_Witness ==
    /\ ppc = "FileNotFoundError"
    /\ cid # 0
    /\ yielded # <<>>
    /\ futures[pag.future].state = "moved"

(***************************************************************************)
(* iter_fs_files (fs_files.py 66-129) and the listing pass of              *)
(* iterdir.iterate (updatedb.py 560-579), which reads through the threaded *)
(* paginator when a cooldown is given and through iter_fs_files otherwise, *)
(* over a remote directory that other clients may change meanwhile.        *)
(***************************************************************************)
FirstPageSize == 1
LimitFloor    == 1150
LimitStep     == 1000

SeqOutcomes == {"ok", "moved", "DataError", "Timeout", "TimeoutError", "error"}

\* The response of the remote to a request at offset o with the given limit.
list_page(o, limit) ==
    [offset |-> o,
     count  |-> Len(listing),
     data   |-> IF o >= Len(listing) THEN <<>>
                ELSE SubSeq(listing, o + 1, Min(o + limit, Len(listing))),
     cid    |-> cid]

moved_page(o) == [offset |-> o, count |-> 1, data |-> <<Foreign>>, cid |-> Foreign]

\* lines 112-117: a DataError is answered by a smaller limit, down to 1150.
ReduceLimit(limit) ==
    IF limit - LimitStep < LimitFloor THEN LimitFloor ELSE limit - LimitStep

\* lines 560-579: the pass starts with the paginator the cooldown selects.
InitList ==
    /\ data = EmptyStore.data
    /\ dirlen = EmptyStore.dirlen
    /\ event = EmptyStore.event
    /\ lastOp = NoOp
    /\ nops = 0
    /\ DiffIdle
    /\ \E t \in 0..MaxTotal : listing = [i \in 1..t |-> i]
    /\ cid \in {0, 1}
    /\ yielded = <<>>
    /\ expiries = 0
    /\ RunOff
    /\ \E cooldown \in BOOLEAN :
           IF cooldown
           THEN /\ futures = make_future(<<>>, 0)
                /\ pag = [count |-> -1, offset |-> 0, payload_offset |-> 0,
                          future |-> 1, dq |-> <<>>]
                /\ ppc = "await"
                /\ seq = NoSeq
           ELSE /\ futures = <<>>
                /\ pag = NoPag
                /\ ppc = "off"
                /\ seq = [offset |-> 0, limit |-> FirstPageSize, pc |-> "fetch",
                          error |-> "none"]

\* lines 107-128: one call of get_files and what gen_step does with its result.
SeqFetch(outcome) ==
    /\ seq.pc = "fetch"
    /\ IF outcome = "moved" THEN cid # 0 ELSE TRUE
    /\ IF outcome = "DataError"
       THEN /\ seq' = IF seq.limit <= LimitFloor
                      THEN [seq EXCEPT !.pc = "raised", !.error = "DataError"]
                      ELSE [seq EXCEPT !.limit = ReduceLimit(seq.limit)]
            /\ UNCHANGED yielded
       ELSE IF outcome \in {"Timeout", "TimeoutError", "error"}
       THEN /\ seq' = [seq EXCEPT !.pc = "raised", !.error = outcome]
            /\ UNCHANGED yielded
       ELSE LET resp == IF outcome = "moved" THEN moved_page(seq.offset)
                        ELSE list_page(seq.offset, seq.limit)
                lim  == IF yielded = <<>> THEN PageSize ELSE seq.limit
                o    == seq.offset + Len(resp.data)
            IN  IF cid # 0 /\ resp.cid # cid
                THEN /\ seq' = [seq EXCEPT !.pc = "raised", !.limit = lim,
                                           !.error = "NotADirectoryError"]
                     /\ UNCHANGED yielded
                ELSE /\ yielded' = Append(yielded, resp)
                     /\ seq' = [seq EXCEPT !.offset = o, !.limit = lim,
                                           !.pc = IF o >= resp.count THEN "done"
                                                  ELSE "fetch"]
    /\ UNCHANGED <<listing, futures, pag, ppc, expiries, cid>>
    /\ UNCHANGED <<storeVars, opVars, diffVars, runVars>>

\* Another client adds an item to the directory or removes one while the
\* pass is running.
Drift ==
    /\ IF ppc = "await" THEN TRUE ELSE seq.pc = "fetch"
    /\ \E t \in {Len(listing) - 1, Len(listing) + 1} \cap (0..MaxTotal) :
           listing' = [i \in 1..t |-> i]
    /\ UNCHANGED <<futures, pag, yielded, ppc, expiries, cid, seq>>
    /\ UNCHANGED <<storeVars, opVars, diffVars, runVars>>

NextList ==
    \/ NextPag
    \/ \E outcome \in SeqOutcomes : SeqFetch(outcome)
    \/ Drift

SpecList == InitList /\ [][NextList]_vars

\* C12: no listing pass, through either paginator, ends by raising a
\* timeout-class error of a page fetch to its caller.
C12_TimeoutAbsorbed ==
    /\ seq.pc = "raised" => seq.error \notin {"Timeout", "TimeoutError"}
    /\ ppc = "raised" => futures[pag.future].state \notin {"Timeout", "TimeoutError"}

\* C13: a listing pass that ends without an error has yielded pages that all
\* report the same total.
C13_CountDriftIsBusy ==
    (ppc = "done" \/ seq.pc = "done")
        => \A i, j \in 1..Len(yielded) : yielded[i].count = yielded[j].count

(***************************************************************************)
(* diff_dir over a listing pass that delivers an id twice                  *)
(***************************************************************************)
\* The sequence q with a second copy of its i-th element put after its j-th.
Redeliver(q, i, j) == SubSeq(q, 1, j) \o <<q[i]>> \o SubSeq(q, j + 1, Len(q))

\* diff_dir starts on pages that hold one item of the directory twice; the
\* total they report counts the item once or twice.
DiffStartDup ==
    LET q == Listing(remote)
    IN  \E i \in 1..NumDirs + NumFiles : \E j \in 1..NumDirs + NumFiles :
        \E twice \in BOOLEAN :
            /\ i <= j
            /\ j <= Len(q)
            /\ DiffStartOn(Redeliver(q, i, j), IF twice THEN Len(q) + 1 ELSE Len(q))

NextDup == DiffStartDup \/ DiffStart \/ MergeStep \/ Commit \/ RemoteChange

SpecDup == Init /\ [][NextDup]_vars

\* The ids of a sequence of items are pairwise different.
Distinct(q) == \A i, j \in 1..Len(q) : q[i].id = q[j].id => i = j

\* C14: diff_dir does not return lists from a listing pass whose pages hold
\* an id twice.
C14_DuplicateIsBusy ==
    pc = "diffed" =>
        /\ Distinct(it.unread)
        /\ \A k \in 1..Len(it.unread) : it.unread[k].id \notin it.seen


\* C14, amended: every item the pass has taken from its pages had an id not
\* taken before, so no second occurrence is ever yielded or listed: the pass
\* raises BusyOSError when it reaches one.  (A second occurrence behind the
\* point of an early return is never reached.)
C14_NoSecondOccurrenceYielded ==
    /\ pc \in {"merge", "diffed"} /\ mode = "diff"
           => n + Len(it.dirs) + Len(it.pending) = Cardinality(it.seen)
    /\ Distinct(upsert_list)

\* diff_dir failed with BusyOSError on a second occurrence.
C14_Witness == pc = "idle" /\ mode = "busy"

(***************************************************************************)
(* updatedb: the breadth-first run over a tree of directories              *)
(***************************************************************************)
MaxThreshold == 2
MaxFaults    == 2

\* Item i of the remote tree lies below directory d.
RECURSIVE TreeBelow(_, _)
TreeBelow(i, d) ==
    IF i = 0 THEN FALSE
    ELSE IF tree[i].parent_id = d THEN TRUE
    ELSE TreeBelow(tree[i].parent_id, d)

\* Directory d exists on the remote (the root always does).
OnRemote(d) == IF d = 0 THEN TRUE ELSE tree[d].present

\* get_file_count: the number of items below directory d.
get_file_count(d) == Cardinality({i \in Ids : tree[i].present /\ TreeBelow(i, d)})

\* What a probe can end with: a count, float("inf") or an exception.
ProbeKinds == {"count", "inf", "error"}

\* get_file_count_in_tree, run by the executor for directory d.
get_file_count_in_tree(d, kind) ==
    IF kind = "count" THEN [kind |-> "count", count |-> get_file_count(d)]
    ELSE [kind |-> kind, count |-> 0]

\* The elements of a set of ids in increasing order.
RECURSIVE Sorted(_)
Sorted(S) ==
    IF S = {} THEN <<>>
    ELSE LET x == CHOOSE y \in S : \A z \in S : y <= z
         IN  <<x>> \o Sorted(S \ {x})

\* resp["path"][1:] of a listing of directory id: its ancestors and itself.
RECURSIVE Path(_)
Path(id) == IF id = 0 THEN <<>> ELSE Path(tree[id].parent_id) \o <<id>>

\* A finally clause that writes nothing.
upsert_ancestor_skipped(st, d) == st

\* One directory of `ancestors` upserted with is_alive=1, is_dir=1, _triggered=0.
upsert_ancestor(st, d) ==
    IF ~st.data[d].present
    THEN LET new == [present |-> TRUE, parent_id |-> tree[d].parent_id, name |-> 1,
                     mtime |-> 0, is_alive |-> TRUE, triggered |-> FALSE]
         IN  trg_data_insert([st EXCEPT !.data[d] = new], d, new)
    ELSE UpdateRow(st, d, [st.data[d] EXCEPT !.parent_id = tree[d].parent_id,
                                             !.name = 1,
                                             !.is_alive = TRUE,
                                             !.triggered = FALSE])

RECURSIVE upsert_ancestors(_, _)
upsert_ancestors(st, ds) ==
    IF ds = <<>> THEN st
    ELSE CHOOSE r \in {upsert_ancestors(st1, Tail(ds)) :
                          st1 \in {upsert_ancestor(st, Head(ds))}} : TRUE

\* normalize_attr of item i of the remote tree.
TreeAttr(i) == [id |-> i, parent_id |-> tree[i].parent_id, name |-> 1, mtime |-> 1,
                is_alive |-> TRUE]

RECURSIVE TreeAttrs(_)
TreeAttrs(ids) ==
    IF ids = <<>> THEN <<>> ELSE <<TreeAttr(Head(ids))>> \o TreeAttrs(Tail(ids))

\* What the pages of directory id deliver: its children (show_dir=1) or,
\* for a tree, the files below it (show_dir=0).
Delivered(id, tr) ==
    Listing([i \in Ids |->
                [present |-> IF tr THEN i \in Files /\ tree[i].present /\ TreeBelow(i, id)
                             ELSE tree[i].present /\ tree[i].parent_id = id,
                 mtime   |-> 1]])

\* select_mtime_groups(con, id, tree=True): the alive files below id.
select_mtime_groups_tree(dt, id) ==
    LET S == {x \in Files : dt[x].present /\ dt[x].is_alive /\ LinkedTo(dt, x, id)}
    IN  [remains |-> Cardinality(S), groups |-> GroupsDesc(dt, S)]

\* The loop of lines 660-682 run to its end: s is the generator, h and gs the
\* history groups, k the number of items consumed.
RECURSIVE Merge(_, _, _, _, _, _, _, _)
Merge(s, h, gs, rem, k, up, rm, cnt) ==
    CHOOSE res \in
        {IF r.stop \/ r.busy
         THEN [upsert |-> up,
               remove |-> IF rem # 0
                          THEN rm \cup Unseen(h.ids, r.st.seen) \cup RemoveRest(gs, r.st.seen)
                          ELSE rm]
         ELSE IF rem = 0
         THEN Merge(r.st, h, gs, rem, k + 1, Append(up, r.item), rm, cnt)
         ELSE CHOOSE res2 \in
                  {IF q.exhausted
                   THEN Merge(r.st, q.his, q.groups, q.remains, k + 1, up, q.remove, cnt)
                   ELSE IF q.his.mtime = r.item.mtime /\ r.item.id \in q.his.ids
                   THEN IF k + 1 + q.remains - 1 = cnt
                        THEN [upsert |-> up, remove |-> q.remove]
                        ELSE Merge(r.st, [q.his EXCEPT !.ids = @ \ {r.item.id}], q.groups,
                                   q.remains - 1, k + 1, up, q.remove, cnt)
                   ELSE Merge(r.st, q.his, q.groups, q.remains, k + 1,
                              Append(up, r.item), q.remove, cnt) :
                   q \in {SkipNewer(h, gs, rem, rm, r.item.mtime, r.st.seen)}} : TRUE :
         r \in {iterate(s)}} : TRUE

\* The test of line 636: the whole listing is pulled without a diff.
full_pull_ignoring_refresh(dl, id, refresh) == ~HasHistory(dl, id)
full_pull(dl, id, refresh) == refresh \/ ~HasHistory(dl, id)

\* diff_dir(con, client, id, refresh=refresh, tree=tr) against store st: the
\* two lists.
diff_dir(st, id, refresh, tr) ==
    CHOOSE res \in
        {IF full_pull(st.dirlen, id, refresh)
         THEN [upsert |-> Drain(StartIterOn(stream)), remove |-> {}]
         ELSE CHOOSE res2 \in
                  {IF g.remains # 0
                   THEN Merge(StartIterOn(stream), Head(g.groups), Tail(g.groups),
                              g.remains, 0, <<>>, {}, Len(stream))
                   ELSE Merge(StartIterOn(stream), NoGroup, g.groups,
                              g.remains, 0, <<>>, {}, Len(stream)) :
                   g \in {IF tr THEN select_mtime_groups_tree(st.data, id)
                          ELSE select_mtime_groups(st.data, id)}} : TRUE :
         stream \in {Delivered(id, tr)}} : TRUE

\* The ids of a list of items.
IdsOf(items) == [k \in 1..Len(items) |-> items[k].id]

\* A finally clause that would also store the items of the listing.
diff_dir_finally_with_items(st, id, paged) ==
    IF paged
    THEN upsert_items(upsert_ancestors(st, Path(id)),
                      TreeAttrs(IdsOf(Delivered(id, FALSE))))
    ELSE st

\* diff_dir's finally clause: runs once a first page has set `ancestors`.
diff_dir_finally(st, id, paged) ==
    IF paged THEN upsert_ancestors(st, Path(id)) ELSE st

\* updatedb_one: st is the store diff_dir read, st1 the store its finally
\* clause left; the upserts and the kills are one transaction.
updatedb_one(st, st1, id) ==
    CHOOSE r \in {kill_items(upsert_items(st1, TreeAttrs(IdsOf(d.upsert))), d.remove) :
                     d \in {diff_dir(st, id, FALSE, FALSE)}} : TRUE

\* load_ancestors(refresh=False): the directories above p that the store
\* does not hold, the topmost first.
RECURSIVE load_ancestors(_, _)
load_ancestors(st, p) ==
    IF p = 0 THEN <<>>
    ELSE IF st.data[p].present THEN <<>>
    ELSE load_ancestors(st, tree[p].parent_id) \o <<p>>

RECURSIVE LoadAll(_, _)
LoadAll(st, fs) ==
    IF fs = <<>> THEN st
    ELSE CHOOSE r \in {LoadAll(st1, Tail(fs)) :
                          st1 \in {upsert_ancestors(
                                       st, load_ancestors(st, tree[Head(fs)].parent_id))}} :
             TRUE

\* updatedb_tree: the directories above the files to upsert that the store
\* lacks, then the files, then the kills.
updatedb_tree(st, st1, id) ==
    CHOOSE r \in {kill_items(upsert_items(LoadAll(st1, IdsOf(d.upsert)),
                                          TreeAttrs(IdsOf(d.upsert))), d.remove) :
                     d \in {diff_dir(st, id, FALSE, TRUE)}} : TRUE

\* The stores that updatedb_one commits one after the other: lines 928-932
\* are one transaction.
updatedb_one_commits(st, st1, id) == <<updatedb_one(st, st1, id)>>

\* The stores that updatedb_tree commits one after the other: lines 996-998
\* (`if upserted:`) commit the ancestors, then the files; line 1001
\* (`if to_remove:`) commits the kills.
updatedb_tree_commits(st, st1, id) ==
    LET d   == diff_dir(st, id, FALSE, TRUE)
        fs  == IdsOf(d.upsert)
        sa  == LoadAll(st1, fs)
        su  == upsert_items(sa, TreeAttrs(fs))
        ups == IF fs # <<>> THEN <<sa, su>> ELSE <<>>
        sb  == IF fs # <<>> THEN su ELSE st1
    IN  IF d.remove # {} THEN Append(ups, kill_items(sb, d.remove)) ELSE ups

\* iter_descendants_fast(con, id, ensure_file=False, max_depth=1)
iter_descendants_fast(st, id) ==
    Sorted({d \in Dirs : st.data[d].present /\ st.data[d].is_alive
                         /\ st.data[d].parent_id = id})

\* bfs_gen: send puts the id at the back of the queue.
send(q, id) == Append(q, id)

RECURSIVE send_all(_, _)
send_all(q, ids) == IF ids = <<>> THEN q ELSE send_all(send(q, Head(ids)), Tail(ids))

\* The store that the else clause of line 1135 reads: updatedb_one or
\* updatedb_tree has returned, so its writes (st2) are committed; st1 is the
\* store before them.
committed_not_yet(st1, st2) == st1
committed(st1, st2) == st2

\* Lines 1145-1147: the ids sent to the queue once directory id is reconciled.
children_sent_unsplit(st, id, split) ==
    IF recursive THEN iter_descendants_fast(st, id) ELSE <<>>
children_sent(st, id, split) ==
    IF recursive /\ split THEN iter_descendants_fast(st, id) ELSE <<>>

need_calc_size == recursive /\ auto_splitting_threshold > 0

\* count > auto_splitting_threshold, where count may be float("inf").
Exceeds_or_equal(pr, threshold) ==
    IF pr.kind = "inf" THEN TRUE ELSE pr.count >= threshold
Exceeds(pr, threshold) ==
    IF pr.kind = "inf" THEN TRUE ELSE pr.count > threshold

\* Lines 1094-1110: need_to_split_tasks for a directory whose probe gave pr.
need_to_split_tasks(pr) ==
    IF auto_splitting_threshold = 0 THEN TRUE
    ELSE IF auto_splitting_threshold < 0 THEN FALSE
    ELSE IF recursive THEN Exceeds(pr, auto_splitting_threshold)
    ELSE TRUE

\* Line 1099 is reached: the result of the probe is asked for.
AsksProbe == auto_splitting_threshold > 0 /\ recursive

\* The handlers of lines 1120-1134.
on_not_found_ignored(st, id) == st
on_not_found(st, id) == kill_item(st, id)

on_busy_dropped(q, id) == q
on_busy(q, id) == send(q, id)

on_other_swallowed == "loop"
on_other == "aborted"

Results == {"ok", "NotFound", "NotADirectory", "Busy", "other"}

\* The orders in which the ids of a set can be iterated.
Orders(S) ==
    {q \in [1..Cardinality(S) -> S] : \A i, j \in 1..Cardinality(S) : q[i] = q[j] => i = j}

\* A run of updatedb(client, con, top_dirs) starts: the store is empty, the
\* queue holds the top ids (one of the sets of `roots`, iterated in any order)
\* and, if sizes are needed, their probes are submitted.
InitRunIn(kinds, roots) ==
    /\ data = EmptyStore.data
    /\ dirlen = EmptyStore.dirlen
    /\ event = EmptyStore.event
    /\ lastOp = NoOp
    /\ nops = 0
    /\ DiffIdle
    /\ PagOff
    /\ SeqOff
    /\ run = "loop"
    /\ \E f \in [Ids -> DirIds] :
           /\ \A i \in Ids : f[i] \in ParentChoices(i)
           /\ tree = [i \in Ids |-> [parent_id |-> f[i], present |-> TRUE]]
    /\ auto_splitting_threshold \in -1..MaxThreshold
    /\ recursive \in BOOLEAN
    /\ run_seen = {}
    /\ last = NoTurn
    /\ faults = 0
    /\ settled = {}
    /\ executor = IF need_calc_size THEN "running" ELSE "none"
    /\ \E top_ids \in roots : \E kd \in [DirIds -> kinds] :
           /\ queue \in Orders(top_ids)
           /\ cache_futures =
                  [d \in DirIds |->
                      IF d \in top_ids /\ need_calc_size
                      THEN get_file_count_in_tree(d, kd[d]) ELSE NoProbe]

\* The runs on a single top directory.
OneRoot == {{d} : d \in DirIds}

InitRun == InitRunIn(ProbeKinds, OneRoot)

\* The probes of the directories just sent to the queue are submitted.
Submit(cf, ids, kinds) ==
    [d \in DirIds |->
        IF need_calc_size /\ d \in ids /\ cf[d].kind = "none"
        THEN get_file_count_in_tree(d, kinds[d]) ELSE cf[d]]

SetStore(st) ==
    /\ data' = st.data
    /\ dirlen' = st.dirlen
    /\ event' = st.event

Turn(kind, id, split, result, probe) ==
    [kind |-> kind, id |-> id, split |-> split, result |-> result, probe |-> probe,
     paged |-> FALSE]

\* The set of the elements of a sequence.
Range(q) == {q[k] : k \in 1..Len(q)}

\* Lines 1111-1149 for directory id: updatedb_one or updatedb_tree ends with
\* `result`; paged tells whether a first page had arrived before (it can
\* only come from a directory that exists).
Reconcile(id, split, result, paged, kinds) ==
    LET pk == cache_futures[id].kind
    IN  \E st1 \in {diff_dir_finally(Store, id, paged)} :
        /\ paged => OnRemote(id)
        /\ IF result = "ok" THEN OnRemote(id) /\ paged
           ELSE IF result = "NotFound" THEN ~OnRemote(id)
           ELSE IF result = "NotADirectory" THEN ~OnRemote(id) /\ ~paged
           ELSE IF result = "Busy" THEN paged /\ faults < MaxFaults
           ELSE faults < MaxFaults
        /\ faults' = IF result \in {"Busy", "other"} THEN faults + 1 ELSE faults
        /\ last' = [Turn("reconcile", id, split, result, pk) EXCEPT !.paged = paged]
        /\ settled' = IF result \in {"ok", "NotFound", "NotADirectory"}
                      THEN settled \cup {id} ELSE settled
        /\ IF result = "ok"
           THEN \E st2 \in {IF split \/ ~recursive
                              THEN updatedb_one(Store, st1, id)
                              ELSE updatedb_tree(Store, st1, id)} :
                LET kids == children_sent(committed(st1, st2), id, split)
                IN  /\ SetStore(st2)
                    /\ run_seen' = run_seen \cup {id}
                    /\ queue' = send_all(Tail(queue), kids)
                    /\ cache_futures' = Submit(cache_futures, Range(kids), kinds)
                    /\ run' = run
           ELSE IF result = "NotFound"
           THEN /\ SetStore(on_not_found(st1, id))
                /\ queue' = Tail(queue)
                /\ UNCHANGED <<run, run_seen, cache_futures>>
           ELSE IF result = "NotADirectory"
           THEN /\ SetStore(st1)
                /\ queue' = Tail(queue)
                /\ UNCHANGED <<run, run_seen, cache_futures>>
           ELSE IF result = "Busy"
           THEN /\ SetStore(st1)
                /\ queue' = on_busy(Tail(queue), id)
                /\ UNCHANGED <<run, run_seen, cache_futures>>
           ELSE /\ SetStore(st1)
                /\ run' = on_other
                /\ queue' = Tail(queue)
                /\ UNCHANGED <<run_seen, cache_futures>>

\* A pool that is shut down only when the loop returns.
finally_on_return_only(r, ex) ==
    IF r = "done" /\ ex = "running" THEN "shutdown_nowait" ELSE ex

\* The finally clause of lines 1150-1152, run when the loop is left with
\* state r: executor.shutdown(wait=False, cancel_futures=True).
finally(r, ex) ==
    IF r # "loop" /\ ex = "running" THEN "shutdown_nowait" ELSE ex

\* One turn of the loop of line 1089.
RunStep(result, paged, kinds) ==
    /\ run = "loop"
    /\ queue # <<>>
    /\ LET id == Head(queue)
           pr == cache_futures[id]
       IN  IF id \in run_seen
           THEN /\ queue' = Tail(queue)
                /\ last' = Turn("skip", id, FALSE, "none", "none")
                /\ UNCHANGED <<storeVars, run, run_seen, cache_futures, faults, settled>>
           ELSE IF AsksProbe /\ pr.kind = "error"
           THEN /\ run' = "aborted"
                /\ queue' = Tail(queue)
                /\ last' = Turn("probe_raised", id, FALSE, "none", pr.kind)
                /\ UNCHANGED <<storeVars, run_seen, cache_futures, faults, settled>>
           ELSE IF AsksProbe /\ pr.kind = "count" /\ pr.count <= 0
           THEN /\ run_seen' = run_seen \cup {id}
                /\ queue' = Tail(queue)
                /\ last' = Turn("empty", id, FALSE, "none", pr.kind)
                /\ UNCHANGED <<storeVars, run, cache_futures, faults, settled>>
           ELSE Reconcile(id, need_to_split_tasks(pr), result, paged, kinds)
    /\ executor' = finally(run', executor)
    /\ UNCHANGED <<tree, auto_splitting_threshold, recursive>>
    /\ UNCHANGED <<opVars, diffVars, pagVars, listVars>>

\* bfs_gen is exhausted: updatedb returns.
Finish ==
    /\ run = "loop"
    /\ queue = <<>>
    /\ run' = "done"
    /\ executor' = finally(run', executor)
    /\ UNCHANGED <<tree, auto_splitting_threshold, recursive, queue, run_seen,
                   cache_futures, last, faults, settled>>
    /\ UNCHANGED <<storeVars, opVars, diffVars, pagVars, listVars>>

\* Directory d and all below it are deleted on the remote during the run.
RemoteDelete(d) ==
    /\ run = "loop"
    /\ tree[d].present
    /\ tree' = [i \in Ids |->
                   IF i = d \/ TreeBelow(i, d)
                   THEN [tree[i] EXCEPT !.present = FALSE] ELSE tree[i]]
    /\ UNCHANGED <<run, auto_splitting_threshold, recursive, queue, run_seen,
                   cache_futures, last, faults, settled, executor>>
    /\ UNCHANGED <<storeVars, opVars, diffVars, pagVars, listVars>>

NextRun ==
    \/ \E result \in Results : \E paged \in BOOLEAN : \E kinds \in [Dirs -> ProbeKinds] :
           RunStep(result, paged, kinds)
    \/ Finish
    \/ \E d \in Dirs : RemoteDelete(d)

SpecRun == InitRun /\ [][NextRun]_vars

\* The runs on two top directories, one of which may lie below the other;
\* the probes return.
TwoRoots == {S \in SUBSET DirIds : Cardinality(S) = 2}

NextRoots ==
    \/ \E result \in Results : \E paged \in BOOLEAN : \E kinds \in [Dirs -> {"count"}] :
           RunStep(result, paged, kinds)
    \/ Finish
    \/ \E d \in Dirs : RemoteDelete(d)

SpecRoots == InitRunIn({"count"}, TwoRoots) /\ [][NextRoots]_vars

\* A run on a remote that stays as it is, where reconciliations fail with
\* BusyOSError only and every probe returns: the loop keeps taking turns.
NextRunFair ==
    \/ \E result \in {"ok", "Busy"} : \E kinds \in [Dirs -> {"count", "inf"}] :
           RunStep(result, TRUE, kinds)
    \/ Finish

SpecRunFair ==
    InitRunIn({"count", "inf"}, OneRoot) /\ [][NextRunFair]_vars /\ WF_vars(NextRunFair)

(***************************************************************************)
(* Properties of the run                                                   *)
(***************************************************************************)
\* The turn just taken reconciled the head of the queue and ended with r.
Ended(r) ==
    /\ run = "loop"
    /\ queue # <<>>
    /\ last'.kind = "reconcile"
    /\ last'.id = Head(queue)
    /\ last'.result = r
    /\ <<queue, faults, run_seen, run>> # <<queue', faults', run_seen', run'>>

\* C16: a directory whose reconciliation fails with BusyOSError is sent to the
\* back of the queue, is not marked processed and the run goes on; when the
\* failures stop, it is reconciled and marked processed, and the run ends
\* normally with every queued directory treated.
C16_BusyRetried ==
    /\ [][Ended("Busy") =>
            /\ run' = "loop"
            /\ queue' = Append(Tail(queue), Head(queue))
            /\ Head(queue) \notin run_seen']_vars
    /\ \A d \in DirIds :
           (last.result = "Busy" /\ last.id = d) ~> (d \in run_seen)
    /\ <>(run = "done" /\ queue = <<>>)
    /\ [](run # "aborted")

\* A directory has just failed with BusyOSError and waits behind another one.
C16_Witness ==
    /\ run = "loop"
    /\ last.result = "Busy"
    /\ Len(queue) > 1
    /\ queue[Len(queue)] = last.id
    /\ last.id \notin run_seen

\* C17: in a recursive run every directory reconciled was split if the
\* threshold is 0, was not split if the threshold is negative, and with a
\* positive threshold was split exactly when its estimated size (infinite
\* after a timeout) is greater than the threshold.
C17_SplitByThreshold ==
    (recursive /\ last.kind = "reconcile") =>
        LET pr == cache_futures[last.id]
        IN  IF auto_splitting_threshold = 0 THEN last.split
            ELSE IF auto_splitting_threshold < 0 THEN ~last.split
            ELSE last.split <=> (pr.kind = "inf" \/ pr.count > auto_splitting_threshold)

\* A directory whose estimated size equals the threshold was reconciled
\* without being split.
C17_Witness ==
    /\ recursive
    /\ last.kind = "reconcile"
    /\ last.result = "ok"
    /\ auto_splitting_threshold > 0
    /\ cache_futures[last.id].kind = "count"
    /\ cache_futures[last.id].count = auto_splitting_threshold
    /\ ~last.split

\* C18: a directory whose probe timed out or failed is taken as infinitely
\* big: it is split and reconciled, and the probe failure does not end the
\* run.
C18_ProbeFailureIsInfinite ==
    last.probe \in {"inf", "error"} =>
        /\ last.kind = "reconcile"
        /\ last.split

C20_OtherErrorAborts ==
    /\ [][Ended("other") =>
              /\ run' = "aborted"
              /\ \A i \in Ids : data[i].present =>
                     /\ data'[i].present
                     /\ Business(data'[i]) = Business(data[i])
              /\ Len(event') >= Len(event)
              /\ SubSeq(event', 1, Len(event)) = event]_vars
    /\ [][run = "aborted" => vars' = vars]_vars

\* The run was aborted by a failed reconciliation after at least one
\* directory had been processed and its rows committed.
C20_Witness ==
    /\ run = "aborted"
    /\ last.result = "other"
    /\ run_seen # {}
    /\ \E i \in Ids : data[i].present
    /\ queue # <<>>

\* The turn just taken reconciled the head of the queue.
Reconciles(id) ==
    /\ run = "loop"
    /\ queue # <<>>
    /\ Head(queue) = id
    /\ last'.kind = "reconcile"
    /\ queue' # queue

\* C21: an id whose reconciliation ended with success, FileNotFoundError or
\* NotADirectoryError is not reconciled again in the same run, however many
\* times it is dequeued.
C21_SettledOnce ==
    [][\A id \in DirIds : Reconciles(id) => id \notin settled]_vars

\* The ids that the turn just taken put at the back of the queue.
Enqueued == SubSeq(queue', Len(queue), Len(queue'))

\* C22: a turn enqueues children only when the reconciliation of their parent
\* has succeeded, and then each child enqueued has, in the committed store,
\* an alive row under that parent, which is marked processed; a turn whose
\* reconciliation failed enqueues no child (a busy directory itself only).
C22_EnqueuedAfterCommit ==
    [][\A id \in DirIds : Reconciles(id) =>
           IF last'.result = "ok"
           THEN /\ id \in run_seen'
                /\ \A k \in 1..Len(Enqueued) :
                       LET c == Enqueued[k]
                       IN  /\ c # 0
                           /\ data'[c].present
                           /\ data'[c].is_alive
                           /\ data'[c].parent_id = id
           ELSE IF last'.result = "Busy" THEN Enqueued = <<id>>
           ELSE Enqueued = <<>>]_vars

\* A child directory waits in the queue: its parent has been reconciled and
\* the store holds the child's row.
C22_Witness ==
    /\ run = "loop"
    /\ last.kind = "reconcile"
    /\ last.result = "ok"
    /\ last.split
    /\ queue # <<>>
    /\ LET c == queue[Len(queue)]
       IN  /\ c # 0
           /\ data[c].present
           /\ data[c].parent_id = last.id
           /\ last.id \in run_seen

\* The child directories of id that are alive in store dt, as a set.
AliveChildDirs(dt, id) ==
    {d \in Dirs : dt[d].present /\ dt[d].is_alive /\ dt[d].parent_id = id}

\* The ids of sequence q are those of set S, each once.
ExactlyOnce(q, S) == Range(q) = S /\ Len(q) = Cardinality(S)

\* C23, as stated: after a successful reconciliation of the direct children
\* (updatedb_one, tree=false) exactly the alive child directories that the
\* store holds are enqueued; after one of the whole tree (updatedb_tree)
\* nothing is.
C23_SplitEnqueuesChildren ==
    [][\A id \in DirIds : (Reconciles(id) /\ last'.result = "ok") =>
           IF last'.split \/ ~recursive
           THEN ExactlyOnce(Enqueued, AliveChildDirs(data', id))
           ELSE Enqueued = <<>>]_vars

\* C23, amended: in a recursive run the alive child directories of the store
\* are enqueued, each once, after a split reconciliation and nothing after an
\* unsplit one; a run that is not recursive reconciles the direct children
\* and enqueues nothing.
C23_RecursiveSplitEnqueuesChildren ==
    [][\A id \in DirIds : (Reconciles(id) /\ last'.result = "ok") =>
           IF recursive /\ last'.split
           THEN ExactlyOnce(Enqueued, AliveChildDirs(data', id))
           ELSE Enqueued = <<>>]_vars

\* After a split reconciliation in a recursive run the store holds, under the
\* directory, a tombstoned directory and a file that are not enqueued and an
\* alive directory that is.
C23_Witness ==
    /\ run = "loop"
    /\ recursive
    /\ last.kind = "reconcile"
    /\ last.result = "ok"
    /\ last.split
    /\ queue # <<>>
    /\ queue[Len(queue)] \in AliveChildDirs(data, last.id)
    /\ \E f \in Files : /\ data[f].present /\ data[f].is_alive
                         /\ data[f].parent_id = last.id
                         /\ f \notin Range(queue)
    /\ \E d \in Dirs : /\ data[d].present /\ ~data[d].is_alive
                        /\ data[d].parent_id = last.id
                        /\ d \notin Range(queue)

\* The stores committed while the directory at the head of the queue is
\* reconciled (its listing succeeds), and the store before them.
HeadCommits ==
    LET id  == Head(queue)
        st1 == diff_dir_finally(Store, id, TRUE)
    IN  [before |-> st1,
         commits |-> IF need_to_split_tasks(cache_futures[id]) \/ ~recursive
                     THEN updatedb_one_commits(Store, st1, id)
                     ELSE updatedb_tree_commits(Store, st1, id)]

\* C24: whichever of updatedb_one and updatedb_tree reconciles a directory,
\* every store that is committed on the way (what a reader sees, what is left
\* after a failure) is the store before the delta or the store with the whole
\* delta.
C24_OneTransaction ==
    (run = "loop" /\ queue # <<>> /\ OnRemote(Head(queue))) =>
        LET h == HeadCommits
        IN  \A k \in 1..Len(h.commits) :
                h.commits[k] \in {h.before, h.commits[Len(h.commits)]}

(***************************************************************************)
(* Properties of the event table                                           *)
(***************************************************************************)
\* C25: an upsert that inserts the row or changes parent_id, name, mtime or
\* is_alive of the stored row appends exactly one event, for that id; an
\* upsert that changes none of them appends no event; no write changes or
\* removes an event already there, so the new event takes the next _id.
C25_OneEventPerChange ==
    [][/\ Len(event') >= Len(event)
       /\ SubSeq(event', 1, Len(event)) = event
       /\ (nops' = nops + 1 /\ lastOp'.kind = "upsert") =>
              LET id == lastOp'.id
              IN  IF ~data[id].present \/ Business(data'[id]) # Business(data[id])
                  THEN /\ Len(event') = Len(event) + 1
                       /\ event'[Len(event')].id = id
                  ELSE event' = event]_vars

\* An upsert has changed nothing but the mtime of a stored row, and its
\* event, which has no op tag, is the last of the table.
C25_Witness ==
    /\ lastOp.kind = "upsert"
    /\ lastOp.old.present
    /\ data[lastOp.id].mtime > lastOp.old.mtime
    /\ [Business(data[lastOp.id]) EXCEPT !.mtime = 0]
           = [Business(lastOp.old) EXCEPT !.mtime = 0]
    /\ Len(event) > 1
    /\ event[Len(event)].id = lastOp.id
    /\ event[Len(event)].diff = {"mtime"}

\* C26: the event of an insert is tagged 'add' alone; the event of an update
\* is tagged 'revert' iff is_alive went from 0 to 1, 'remove' iff it went from
\* 1 to 0, 'rename' iff the name changed, 'move' iff parent_id changed, and
\* carries no other tag.
C26_OpTagsByChangedFields ==
    [][Len(event') = Len(event) + 1 =>
           LET e   == event'[Len(event')]
               old == data[e.id]
               new == data'[e.id]
           IN  IF ~old.present
               THEN e.op = {"add"}
               ELSE /\ e.op \subseteq {"revert", "remove", "rename", "move"}
                    /\ "revert" \in e.op <=> (~old.is_alive /\ new.is_alive)
                    /\ "remove" \in e.op <=> (old.is_alive /\ ~new.is_alive)
                    /\ "rename" \in e.op <=> old.name # new.name
                    /\ "move" \in e.op <=> old.parent_id # new.parent_id]_vars

\* One upsert revived, renamed and moved a row: its event carries the three
\* tags; an earlier event of the same row carries 'remove'.
C26_Witness ==
    /\ Len(event) > 2
    /\ event[Len(event)].op = {"revert", "rename", "move"}
    /\ \E k \in 1..Len(event) : event[k].op = {"remove"} /\ event[k].id = event[Len(event)].id
    /\ \E k \in 1..Len(event) : event[k].op = {"add"} /\ event[k].id = event[Len(event)].id

(***************************************************************************)
(* Properties of diff_dir as a function of the store and the remote tree   *)
(***************************************************************************)
\* The items of the remote tree that a listing of directory id delivers.
RemoteItems(id, tr) ==
    IF tr THEN {i \in Files : tree[i].present /\ TreeBelow(i, id)}
    ELSE {i \in Ids : tree[i].present /\ tree[i].parent_id = id}

\* C27: for a directory without local history (no dirlen row, or dir_count
\* and file_count both 0), and for any directory when refresh is asked for,
\* diff_dir returns every item of the listing, each once, as upsert list and
\* an empty remove list, whatever the store holds.
C27_FullPullWithoutHistory ==
    run = "loop" =>
        \A id \in DirIds : \A refresh \in BOOLEAN : \A tr \in BOOLEAN :
            (OnRemote(id) /\ (refresh \/ ~HasHistory(dirlen, id))) =>
                LET d == diff_dir(Store, id, refresh, tr)
                IN  /\ d.remove = {}
                    /\ ExactlyOnce(IdsOf(d.upsert), RemoteItems(id, tr))

\* A directory with local history whose stored child is gone from the remote:
\* a diff returns the child to remove, a refresh returns no removal.
C27_Witness ==
    /\ run = "loop"
    /\ \E id \in DirIds :
           /\ OnRemote(id)
           /\ HasHistory(dirlen, id)
           /\ diff_dir(Store, id, FALSE, FALSE).remove # {}
           /\ diff_dir(Store, id, TRUE, FALSE).remove = {}
           /\ diff_dir(Store, id, TRUE, FALSE).upsert # <<>>

\* C28: every item that the merge loop of diff_dir takes from the stream and
\* that has no history entry with its id and its mtime is appended to the
\* upsert list, the item at which the last history group is given up included.
C28_UnmatchedIsUpserted ==
    [][(pc = "merge" /\ n' = n + 1) =>
           LET a == cur'
               matched == /\ data[a.id].present
                          /\ data[a.id].is_alive
                          /\ data[a.id].parent_id = D0
                          /\ data[a.id].mtime = a.mtime
           IN  ~matched => upsert_list' = Append(upsert_list, a)]_vars

\* C29: a reconciliation that fails with BusyOSError leaves every row of the
\* store as it was, the rows of the directory itself and of the directories
\* above it excepted, and appends events for these directories only.
C29_BusyWritesAncestorsOnly ==
    [][Ended("Busy") =>
           LET id == Head(queue)
               Above(i) == i = id \/ TreeBelow(id, i)
           IN  /\ \A i \in Ids : ~Above(i) => data'[i] = data[i]
               /\ Len(event') >= Len(event)
               /\ SubSeq(event', 1, Len(event)) = event
               /\ \A k \in (Len(event) + 1)..Len(event') : Above(event'[k].id)]_vars

\* A directory whose listing holds items has failed with BusyOSError: the
\* store has its row, written as an ancestor, and none of its items.
C29_Witness ==
    /\ run = "loop"
    /\ last.kind = "reconcile"
    /\ last.result = "Busy"
    /\ last.id # 0
    /\ data[last.id].present
    /\ RemoteItems(last.id, FALSE) # {}
    /\ \A i \in RemoteItems(last.id, FALSE) : ~data[i].present

(***************************************************************************)
(* Properties of iterdir with fix_order                                    *)
(***************************************************************************)
\* A file that the remote directory does not hold.
OtherFile == NumDirs + NumFiles + 1

\* The listing q with file e more, at its place among the files.
WithFile(q, e) ==
    LET k == Cardinality({j \in 1..Len(q) : IsDir(q[j].id) \/ q[j].mtime >= e.mtime})
    IN  SubSeq(q, 1, k) \o <<e>> \o SubSeq(q, k + 1, Len(q))

\* The listings of the remote directory as it is and with one more file.
Streams ==
    {Listing(remote)}
        \cup {WithFile(Listing(remote), [id |-> OtherFile, mtime |-> m]) : m \in Mtimes}

\* C30: for a listing that delivers the directories by descending mtime and
\* then the files by descending mtime, what iterdir yields with fix_order is
\* the delivered items, each once, in an order in which no item is newer than
\* the one before it, files and directories together.
C30_FixOrderSortsByMtime ==
    \A stream \in Streams :
        LET q == Drain(StartIterOn(stream))
        IN  /\ Len(q) = Len(stream)
            /\ Range(q) = Range(stream)
            /\ \A k \in 1..(Len(q) - 1) : q[k].mtime >= q[k + 1].mtime

\* A full pull has yielded a directory, then a file, then an older directory
\* that was still in the buffer when the stream ended.
C30_Witness ==
    /\ mode = "full"
    /\ pc = "diffed"
    /\ Len(upsert_list) = 3
    /\ IsDir(upsert_list[1].id)
    /\ ~IsDir(upsert_list[2].id)
    /\ IsDir(upsert_list[3].id)
    /\ upsert_list[3].mtime < upsert_list[2].mtime
    /\ upsert_list = Drain(StartIter(remote))

C32_DirectCountsExact ==
    \A D \in DirIds :
        dirlen[D].present =>
            /\ dirlen[D].dir_count =
                   Cardinality({x \in AliveChildren(data, D) : IsDir(x)})
            /\ dirlen[D].file_count =
                   Cardinality({x \in AliveChildren(data, D) : ~IsDir(x)})

\* C34: no count of any dirlen row is negative.
C34_CountsNeverNegative ==
    \A D \in DirIds :
        /\ dirlen[D].dir_count >= 0
        /\ dirlen[D].file_count >= 0
        /\ dirlen[D].tree_dir_count >= 0
        /\ dirlen[D].tree_file_count >= 0

\* The batches handed to upsert_items: one or two nodes with distinct ids,
\* each with its parent in the table or earlier in the batch, applied to the
\* tables left by up to MaxHistory writes.
MaxHistory == MaxOps - 1

Nodes ==
    {[id |-> i, parent_id |-> p, name |-> nm, mtime |-> mt, is_alive |-> TRUE] :
        i \in Ids, p \in DirIds, nm \in Names, mt \in Mtimes}

Batches ==
    {<<a>> : a \in {nd \in Nodes : nd.parent_id \in ParentChoices(nd.id)
                                     /\ ParentKnown(nd.parent_id)}}
    \cup {<<a, b>> : a \in {nd \in Nodes : nd.parent_id \in ParentChoices(nd.id)
                                            /\ ParentKnown(nd.parent_id)},
                     b \in {nd \in Nodes : nd.parent_id \in ParentChoices(nd.id)}}

Admissible(b) ==
    Len(b) = 2 => /\ b[1].id # b[2].id
                  /\ (ParentKnown(b[2].parent_id) \/ b[2].parent_id = b[1].id)

BusinessOf(dt) == [i \in Ids |-> Business(dt[i])]

\* C33: for every batch of nodes with distinct ids, applying upsert_items a
\* second time to the result of the first application leaves the business
\* fields of every data row and every dirlen row as they were after the
\* first, and appends no event.
C33_UpsertIdempotent ==
    \A b \in Batches :
        (nops <= MaxHistory /\ Admissible(b)) =>
            \A st1 \in {upsert_items(Store, b)} :
                \A st2 \in {upsert_items(st1, b)} :
                    /\ BusinessOf(st2.data) = BusinessOf(st1.data)
                    /\ st2.dirlen = st1.dirlen
                    /\ st2.event = st1.event

\* A batch of two whose first application moves an existing directory with a
\* child and revives a tombstoned file: counts change and events are added.
C33_Witness ==
    /\ nops <= MaxHistory
    /\ \E b \in Batches :
        /\ Admissible(b) /\ Len(b) = 2
        /\ \A k \in 1..2 : data[b[k].id].present /\ b[k].mtime >= data[b[k].id].mtime
        /\ \E k \in 1..2 : ~data[b[k].id].is_alive
        /\ \E k \in 1..2 : data[b[k].id].is_alive /\ Business(data[b[k].id]).name # b[k].name
        /\ \A st1 \in {upsert_items(Store, b)} :
               /\ Len(st1.event) = Len(event) + 2
               /\ st1.dirlen # dirlen

\* C35: an update of an existing row that changes neither is_alive nor
\* parent_id leaves every dirlen row unchanged.
C35_DirlenFrame ==
    [][(/\ lastOp'.old.present
        /\ data'[lastOp'.id].is_alive = lastOp'.old.is_alive
        /\ data'[lastOp'.id].parent_id = lastOp'.old.parent_id)
       => dirlen' = dirlen]_vars

\* An alive directory with an alive child was renamed with a newer mtime.
C35_Witness ==
    /\ lastOp.kind = "upsert" /\ lastOp.old.present /\ lastOp.old.is_alive
    /\ IsDir(lastOp.id)
    /\ data[lastOp.id].is_alive
    /\ data[lastOp.id].parent_id = lastOp.old.parent_id
    /\ data[lastOp.id].name # lastOp.old.name
    /\ data[lastOp.id].mtime > lastOp.old.mtime
    /\ dirlen[lastOp.id].dir_count + dirlen[lastOp.id].file_count > 0

(***************************************************************************)
(* Properties of the loop of updatedb                                      *)
(***************************************************************************)
\* A turn of the loop of line 1089 is taken on the head of the queue.
Turned ==
    /\ run = "loop"
    /\ queue # <<>>
    /\ tree' = tree
    /\ <<queue, faults, run_seen, run, last>> # <<queue', faults', run_seen', run', last'>>

\* C36: a turn on an id that is not marked processed, and whose probe (if
\* one is asked for) returned a value, reconciles that id, a count of zero
\* included; the id is marked processed only by a reconciliation that ended
\* well.
C36_DequeuedIsReconciled ==
    [][(/\ Turned
        /\ Head(queue) \notin run_seen
        /\ AsksProbe => cache_futures[Head(queue)].kind \in {"count", "inf"})
       => /\ last'.kind = "reconcile"
          /\ last'.id = Head(queue)
          /\ Head(queue) \in run_seen' => last'.result = "ok"]_vars

\* The loop keeps taking turns and returns when the queue is empty: every
\* remote call of a turn returns.
NextRootsTurn ==
    \/ \E result \in Results : \E paged \in BOOLEAN : \E kinds \in [Dirs -> {"count"}] :
           RunStep(result, paged, kinds)
    \/ Finish

\* The runs of SpecRoots in which the loop is not stopped from outside; the
\* failures of a run (BusyOSError included) are at most MaxFaults.
SpecRootsFair ==
    InitRunIn({"count"}, TwoRoots) /\ [][NextRoots]_vars /\ WF_vars(NextRootsTurn)

\* C37: a run in which BusyOSError is raised finitely often and every call
\* returns ends; an id is reconciled with success only while it is not
\* marked processed and is marked by that, so at most once; a run that
\* returns has an empty queue; and when the run has ended, normally or by
\* an error, the pool (if one was made) has been shut down with wait=False.
C37_RunTerminates ==
    /\ <>(run \in {"done", "aborted"})
    /\ [][Ended("ok") => (Head(queue) \notin run_seen /\ Head(queue) \in run_seen')]_vars
    /\ [][run_seen \subseteq run_seen']_vars
    /\ [](run = "done" => queue = <<>>)
    /\ [](run \in {"done", "aborted"} =>
             executor = IF need_calc_size THEN "shutdown_nowait" ELSE "none")

\* A run on two top directories returned: the second dequeue of a directory
\* that was both a top directory and a child was skipped, every directory
\* is marked processed and the pool is shut down.
C37_Witness ==
    /\ run = "done"
    /\ queue = <<>>
    /\ last.kind = "skip"
    /\ executor = "shutdown_nowait"
    /\ run_seen = DirIds

(***************************************************************************)
(* Termination of the threaded paginator                                   *)
(***************************************************************************)
\* The passes in which the generator is consumed to its end and the worker
\* threads run: every fetch completes; the fetches that fail are at most
\* MaxFailures.
SpecPagFair == InitPag /\ [][NextPag]_vars /\ WF_vars(NextPag)

\* A request was just submitted.
Issued == Len(futures') > Len(futures)

RECURSIVE GroupCount(_)
GroupCount(gs) ==
    IF gs = <<>> THEN 0 ELSE Cardinality(Head(gs).ids) + GroupCount(Tail(gs))

\* The local children whose fate the pass has not decided yet: not listed so
\* far (neither matched nor upserted) and not given up with their group.
Undecided == LocalIds \ (it.seen \cup remove_list)

\* C39: between the turns of the merge loop `remains` is never negative;
\* while it is not zero it is the number of ids held in the current group
\* and the later ones (after the last group has been skipped his_ids keeps
\* the ids of that group, which have been subtracted, and no group is
\* left); and it is zero exactly when no local child is undecided.
C39_RemainsCountsUnresolved ==
    pc = "merge" =>
        /\ remains >= 0
        /\ remains # 0 => remains = Cardinality(his.ids) + GroupCount(groups)
        /\ remains = 0 => groups = <<>>
        /\ remains = 0 <=> Undecided = {}

====
